---- MODULE Spec2Model ----
(***************************************************************************)
(* JaCoCo test generator: the report parser (coverage_parser.py) and the   *)
(* scaffold generator (test_generator.py).                                 *)
(*                                                                         *)
(* Python strings that the code splits, rewrites or parses are sequences   *)
(* of one-character strings (<<"g","V">> is 'gV'); strings that are only   *)
(* concatenated and compared are TLA+ strings.  A float percentage         *)
(* covered/total*100 is the exact fraction [num, den] in lowest terms:     *)
(* for the counts used here two fractions are equal, or ordered, exactly   *)
(* when the floats are.                                                    *)
(***************************************************************************)
EXTENDS Integers, Sequences, FiniteSets, TLC

VARIABLES
    source,     \* the report file handed to parse_report
    outcome,    \* what parse_report did: nothing yet, returned a report, raised
    gapsIn,     \* generate_tests: the gaps argument
    genOut,     \* generate_tests: nothing yet, returned tests, raised
    fmtIn,      \* format_test_file: its three arguments
    fmtOut,     \* format_test_file: nothing yet, returned text
    pctOut      \* _get_coverage_percent: nothing yet, returned a percentage, raised

vars == <<source, outcome, gapsIn, genOut, fmtIn, fmtOut, pctOut>>

(***************************************************************************)
(* Bounds of the model.                                                    *)
(***************************************************************************)
MaxNodes == 6            \* elements of one report (packages .. counters)
MaxTotalsNodes == 5      \* elements of one report with counters at every level
MaxCount == 2            \* items one counter covers (covered + missed)
MaxCountersPerNode == 2  \* counter children of one element
MaxLineNr == 2           \* line numbers range over 1..MaxLineNr

(***************************************************************************)
(* Python values.                                                          *)
(***************************************************************************)
\* None: an absent attribute (Element.get's default applies) or an absent
\* Optional[str] field.  It is no character sequence.
None == <<"None">>

Digits == <<"0", "1", "2", "3", "4", "5", "6", "7", "8", "9">>

IsDigit(ch) == \E d \in 1..Len(Digits) : Digits[d] = ch

DigitVal(ch) == (CHOOSE d \in 1..Len(Digits) : Digits[d] = ch) - 1

\* str(n) for n >= 0, as a character sequence.
RECURSIVE StrOfNat(_)
StrOfNat(n) ==
    IF n < 10 THEN <<Digits[n + 1]>>
    ELSE StrOfNat(n \div 10) \o <<Digits[(n % 10) + 1]>>

\* int(text) succeeds on a non-empty run of decimal digits (signs, blanks
\* and underscores, which int() also accepts, are outside the inputs used).
IsIntText(t) == Len(t) > 0 /\ \A i \in 1..Len(t) : IsDigit(t[i])

RECURSIVE IntOfText(_)
IntOfText(t) ==
    IF Len(t) = 0 THEN 0
    ELSE 10 * IntOfText(SubSeq(t, 1, Len(t) - 1)) + DigitVal(t[Len(t)])

\* int(element.get(attr, 0)): the default 0 for an absent attribute.
AttrRaises(v) == v # None /\ ~IsIntText(v)

AttrInt(v) == IF v = None THEN 0 ELSE IntOfText(v)

\* The character sequence as one TLA+ string.
RECURSIVE Str(_)
Str(s) == IF Len(s) = 0 THEN "" ELSE s[1] \o Str(Tail(s))

\* str.replace(old, new) for one-character old and new.
Replace(s, old, new) == [i \in 1..Len(s) |-> IF s[i] = old THEN new ELSE s[i]]

(***************************************************************************)
(* Float percentages, kept exact.                                          *)
(***************************************************************************)
RECURSIVE Gcd(_, _)
Gcd(a, b) == IF b = 0 THEN a ELSE Gcd(b, a % b)

Frac(n, d) == LET g == Gcd(n, d) IN [num |-> n \div g, den |-> d \div g]

Zero == [num |-> 0, den |-> 1]       \* 0.0

Hundred == [num |-> 100, den |-> 1]  \* 100

Less(p, q) == p.num * q.den < q.num * p.den

\* Percent with the quotient upside down: (total / covered) * 100
PercentInverted(covered, total) ==
    IF covered = 0 THEN Zero ELSE Frac(total * 100, covered)

\* (covered / total) * 100, for total > 0
Percent(covered, total) == Frac(covered * 100, total)

(***************************************************************************)
(* The report: report -> package* -> class* -> method*, every element with *)
(* its counter children after its element children (the order of JaCoCo's  *)
(* report.dtd), a method with its line entries.                            *)
(***************************************************************************)
EmptyRoot == [packages |-> <<>>, counters |-> <<>>]

\* root.findall(".//package"), package.findall(".//class"),
\* cls.findall(".//method"): the descendants, in document order.
FindPackages(root) == root.packages

FindClasses(package) == package.classes

FindMethods(cls) == cls.methods

RECURSIVE Flatten(_)
Flatten(ss) == IF Len(ss) = 0 THEN <<>> ELSE Head(ss) \o Flatten(Tail(ss))

\* element.findall(".//counter"): every counter below the element, in
\* document order.
MethodCountersDeep(m) == m.counters

ClassCountersDeep(c) ==
    Flatten([i \in 1..Len(c.methods) |-> MethodCountersDeep(c.methods[i])])
        \o c.counters

PackageCountersDeep(p) ==
    Flatten([i \in 1..Len(p.classes) |-> ClassCountersDeep(p.classes[i])])
        \o p.counters

FindAllCounters(root) ==
    Flatten([i \in 1..Len(root.packages) |-> PackageCountersDeep(root.packages[i])])
        \o root.counters

\* the positions <<package, class, method>> of the method nodes
MethodNodes(root) ==
    UNION {UNION {{<<p, c, m>> : m \in 1..Len(root.packages[p].classes[c].methods)} :
                     c \in 1..Len(root.packages[p].classes)} :
              p \in 1..Len(root.packages)}

PackageAt(root, pos) == root.packages[pos[1]]

ClassAt(root, pos) == PackageAt(root, pos).classes[pos[2]]

MethodAt(root, pos) == ClassAt(root, pos).methods[pos[3]]

\* the positions <<package, class>> of the class nodes
ClassNodes(root) ==
    UNION {{<<p, c>> : c \in 1..Len(root.packages[p].classes)} :
              p \in 1..Len(root.packages)}

\* the class and method elements, the ones _get_coverage_percent is called on
Elements(root) == ClassNodes(root) \cup MethodNodes(root)

ElementAt(root, pos) == IF Len(pos) = 2 THEN ClassAt(root, pos) ELSE MethodAt(root, pos)

(***************************************************************************)
(* coverage_parser.py                                                      *)
(***************************************************************************)
\* element.get("name", ""), element.get("desc", "")
NameAttr(v) == IF v = None THEN <<>> ELSE v

\* int(counter.get("covered", 0)) or int(counter.get("missed", 0)) raises
\* ValueError.
CounterRaises(c) == AttrRaises(c.covered) \/ AttrRaises(c.missed)

CounterTotal(c) == AttrInt(c.covered) + AttrInt(c.missed)

\* _get_coverage_percent, from the i-th direct counter child on: the first
\* counter of the kind with covered + missed > 0 decides; 0.0 when no
\* counter does.
RECURSIVE CoveragePercentFrom(_, _, _)
CoveragePercentFrom(counters, kind, i) ==
    IF i > Len(counters) THEN Zero
    ELSE IF counters[i].type = kind /\ CounterTotal(counters[i]) > 0
         THEN Percent(AttrInt(counters[i].covered), CounterTotal(counters[i]))
         ELSE CoveragePercentFrom(counters, kind, i + 1)

\* get_coverage_percent reading every counter below the element:
\* element.findall(".//counter")
get_coverage_percent_deep(element, kind) ==
    CoveragePercentFrom(IF "methods" \in DOMAIN element
                        THEN ClassCountersDeep(element) ELSE element.counters,
                        kind, 1)

\* _get_coverage_percent(element, counter_type): element.findall("counter")
\* are the direct counter children
get_coverage_percent(element, kind) ==
    CoveragePercentFrom(element.counters, kind, 1)

\* _get_coverage_percent raises: a counter of the kind with a non-numeric
\* count is reached before any counter of the kind has returned.
get_coverage_percent_raises(element, kind) ==
    \E i \in 1..Len(element.counters) :
        /\ element.counters[i].type = kind
        /\ CounterRaises(element.counters[i])
        /\ \A j \in 1..(i - 1) :
              element.counters[j].type = kind =>
                  /\ ~CounterRaises(element.counters[j])
                  /\ CounterTotal(element.counters[j]) = 0

\* UncoveredFrom collecting the nr of every line entry, covered or not
RECURSIVE AllLinesFrom(_, _)
AllLinesFrom(lines, i) ==
    IF i > Len(lines) THEN <<>>
    ELSE <<AttrInt(lines[i].nr)>> \o AllLinesFrom(lines, i + 1)

\* _get_uncovered_lines: the nr of every line entry with ci = 0, in
\* document order.
RECURSIVE UncoveredFrom(_, _)
UncoveredFrom(lines, i) ==
    IF i > Len(lines) THEN <<>>
    ELSE IF AttrInt(lines[i].ci) = 0
         THEN <<AttrInt(lines[i].nr)>> \o UncoveredFrom(lines, i + 1)
         ELSE UncoveredFrom(lines, i + 1)

get_uncovered_lines(method) == UncoveredFrom(method.lines, 1)

get_uncovered_lines_raises(method) ==
    \E i \in 1..Len(method.lines) :
        AttrRaises(method.lines[i].nr) \/ AttrRaises(method.lines[i].ci)

\* FullClass rewriting the separators of the package name only
FullClassPackageOnly(package, cls) ==
    Replace(NameAttr(package.name), "/", ".") \o <<".">> \o NameAttr(cls.name)

\* f"{package_name}.{class_name}".replace("/", ".")
FullClass(package, cls) ==
    Replace(NameAttr(package.name) \o <<".">> \o NameAttr(cls.name), "/", ".")

\* IsGapCoverage taking a method with uncovered branches for a gap as well
IsGapCoverageAnyKind(line_coverage, branch_coverage) ==
    Less(line_coverage, Hundred) \/ Less(branch_coverage, Hundred)

\* the test that makes a method a gap
IsGapCoverage(line_coverage, branch_coverage) == Less(line_coverage, Hundred)

IsGap(method) ==
    IsGapCoverage(get_coverage_percent(method, "LINE"),
                  get_coverage_percent(method, "BRANCH"))

\* CoverageGap(...) as built for one method
GapOf(package, cls, method) ==
    [class_name      |-> FullClass(package, cls),
     method_name     |-> NameAttr(method.name) \o NameAttr(method.desc),
     package_name    |-> NameAttr(package.name),
     line_coverage   |-> get_coverage_percent(method, "LINE"),
     branch_coverage |-> get_coverage_percent(method, "BRANCH"),
     uncovered_lines |-> get_uncovered_lines(method)]

\* The gaps in the order the three nested loops append them.
RECURSIVE MethodGapsFrom(_, _, _)
MethodGapsFrom(package, cls, i) ==
    IF i > Len(FindMethods(cls)) THEN <<>>
    ELSE (IF IsGap(FindMethods(cls)[i])
          THEN <<GapOf(package, cls, FindMethods(cls)[i])>>
          ELSE <<>>) \o MethodGapsFrom(package, cls, i + 1)

PackageGaps(package) ==
    Flatten([i \in 1..Len(FindClasses(package)) |->
                MethodGapsFrom(package, FindClasses(package)[i], 1)])

TraversalGaps(root) ==
    Flatten([i \in 1..Len(FindPackages(root)) |->
                PackageGaps(FindPackages(root)[i])])

\* The class elements in the order the loops meet them.
TraversalClasses(root) ==
    Flatten([i \in 1..Len(FindPackages(root)) |->
                FindClasses(FindPackages(root)[i])])

\* The running maximum of the classes' own percentages, from 0.0.
RECURSIVE ClassMaxFrom(_, _, _, _)
ClassMaxFrom(classes, kind, i, acc) ==
    IF i > Len(classes) THEN acc
    ELSE LET pct == get_coverage_percent(classes[i], kind) IN
         ClassMaxFrom(classes, kind, i + 1, IF Less(acc, pct) THEN pct ELSE acc)

\* The counters the "overall coverage" loop iterates over.
OverallCounters(root) == FindAllCounters(root)

\* OverallFrom stopping at the first counter of the kind with
\* covered + missed > 0
RECURSIVE OverallFromFirst(_, _, _, _)
OverallFromFirst(counters, kind, i, acc) ==
    IF i > Len(counters) THEN acc
    ELSE IF counters[i].type = kind /\ CounterTotal(counters[i]) > 0
         THEN Percent(AttrInt(counters[i].covered), CounterTotal(counters[i]))
         ELSE OverallFromFirst(counters, kind, i + 1, acc)

\* The "overall coverage" loop: every counter of the kind with
\* covered + missed > 0 overwrites the total.
RECURSIVE OverallFrom(_, _, _, _)
OverallFrom(counters, kind, i, acc) ==
    IF i > Len(counters) THEN acc
    ELSE IF counters[i].type = kind /\ CounterTotal(counters[i]) > 0
         THEN OverallFrom(counters, kind, i + 1,
                          Percent(AttrInt(counters[i].covered),
                                  CounterTotal(counters[i])))
         ELSE OverallFrom(counters, kind, i + 1, acc)

TotalCoverage(root, kind) ==
    OverallFrom(OverallCounters(root), kind, 1,
                ClassMaxFrom(TraversalClasses(root), kind, 1, Zero))

\* InsertGap placing a gap before the gaps of equal key: an unstable sort
InsertGapBeforeEqual(sorted, g) ==
    LET k == Cardinality({i \in 1..Len(sorted) :
                             Less(sorted[i].line_coverage, g.line_coverage)})
    IN SubSeq(sorted, 1, k) \o <<g>> \o SubSeq(sorted, k + 1, Len(sorted))

\* gaps.sort(key=lambda g: g.line_coverage): a stable sort.  One gap is
\* placed behind every gap whose key is not greater.
InsertGap(sorted, g) ==
    LET k == Cardinality({i \in 1..Len(sorted) :
                             ~Less(g.line_coverage, sorted[i].line_coverage)})
    IN SubSeq(sorted, 1, k) \o <<g>> \o SubSeq(sorted, k + 1, Len(sorted))

\* SortGaps without the sort: the gaps stay in document order
DocumentOrder(gaps) == gaps

RECURSIVE SortGaps(_)
SortGaps(gaps) ==
    IF Len(gaps) = 0 THEN <<>>
    ELSE InsertGap(SortGaps(SubSeq(gaps, 1, Len(gaps) - 1)), gaps[Len(gaps)])

\* Some int() call of the run raises ValueError.
MethodRaises(method) ==
    \/ get_coverage_percent_raises(method, "LINE")
    \/ get_coverage_percent_raises(method, "BRANCH")
    \/ IsGap(method) /\ get_uncovered_lines_raises(method)

ClassRaises(cls) ==
    \/ \E i \in 1..Len(FindMethods(cls)) : MethodRaises(FindMethods(cls)[i])
    \/ get_coverage_percent_raises(cls, "LINE")
    \/ get_coverage_percent_raises(cls, "BRANCH")

OverallRaises(root) ==
    \E i \in 1..Len(OverallCounters(root)) :
        /\ OverallCounters(root)[i].type \in {"LINE", "BRANCH"}
        /\ CounterRaises(OverallCounters(root)[i])

ReportRaises(root) ==
    \/ \E i \in 1..Len(TraversalClasses(root)) :
          ClassRaises(TraversalClasses(root)[i])
    \/ OverallRaises(root)

\* What ET.parse(xml_path) does with the source.
ETParse(src) ==
    IF src.kind = "missing" THEN "FileNotFoundError"
    ELSE IF src.kind = "malformed" THEN "ParseError"
    ELSE "tree"

\* ParseFailure swallowing the exception and returning an empty report
ParseFailureEmptyReport(src) ==
    [status |-> "returned",
     report |-> [total_line_coverage |-> Zero, total_branch_coverage |-> Zero,
                 gaps |-> <<>>]]

\* What a failed ET.parse leaves of the call: the exception leaves
\* parse_report, nothing is returned.
ParseFailure(src) == [status |-> "raised", error |-> ETParse(src)]

\* parse_report(xml_path)
parse_report(src) ==
    IF ETParse(src) # "tree" THEN ParseFailure(src)
    ELSE IF ReportRaises(src.root)
    THEN [status |-> "raised", error |-> "ValueError"]
    ELSE [status |-> "returned",
          report |-> [total_line_coverage   |-> TotalCoverage(src.root, "LINE"),
                      total_branch_coverage |-> TotalCoverage(src.root, "BRANCH"),
                      gaps                  |-> SortGaps(TraversalGaps(src.root))]]

(***************************************************************************)
(* test_generator.py                                                       *)
(***************************************************************************)
LowerCase == <<"a", "b", "c", "d", "e", "f", "g", "h", "i", "j", "k", "l", "m",
               "n", "o", "p", "q", "r", "s", "t", "u", "v", "w", "x", "y", "z">>

UpperCase == <<"A", "B", "C", "D", "E", "F", "G", "H", "I", "J", "K", "L", "M",
               "N", "O", "P", "Q", "R", "S", "T", "U", "V", "W", "X", "Y", "Z">>

ToUpper(ch) ==
    IF \E k \in 1..Len(LowerCase) : LowerCase[k] = ch
    THEN UpperCase[CHOOSE k \in 1..Len(LowerCase) : LowerCase[k] = ch]
    ELSE ch

ToLower(ch) ==
    IF \E k \in 1..Len(UpperCase) : UpperCase[k] = ch
    THEN LowerCase[CHOOSE k \in 1..Len(UpperCase) : UpperCase[k] = ch]
    ELSE ch

\* str.capitalize(): the first character upper-cased, the rest lower-cased
Capitalize(s) ==
    [i \in 1..Len(s) |-> IF i = 1 THEN ToUpper(s[i]) ELSE ToLower(s[i])]

\* s.split(sep)[0]: what precedes the first sep, all of s without one
SplitFirst(s, sep) ==
    IF \E i \in 1..Len(s) : s[i] = sep
    THEN SubSeq(s, 1, (CHOOSE i \in 1..Len(s) :
                          s[i] = sep /\ \A j \in 1..(i - 1) : s[j] # sep) - 1)
    ELSE s

\* s.split(sep)[-1]: what follows the last sep, all of s without one
SplitLast(s, sep) ==
    IF \E i \in 1..Len(s) : s[i] = sep
    THEN SubSeq(s, (CHOOSE i \in 1..Len(s) :
                       s[i] = sep /\ \A j \in (i + 1)..Len(s) : s[j] # sep) + 1, Len(s))
    ELSE s

\* gaps[:10]
GapCap == 10

Considered(gaps) == SubSeq(gaps, 1, IF Len(gaps) < GapCap THEN Len(gaps) ELSE GapCap)

\* _get_test_class_name
get_test_class_name(target_class) == Str(SplitLast(target_class, ".")) \o "Test"

\* gap.method_name.split('(')[0].capitalize()
CapitalizedName(gap) == Capitalize(SplitFirst(gap.method_name, "("))

\* TestMethodName numbering the cases as the bodies are chosen: every case
\* of index >= 2 is Case3
TestMethodNameByVariant(gap, i) ==
    "test" \o Str(CapitalizedName(gap)) \o "_Case"
        \o Str(StrOfNat((IF i < 2 THEN i ELSE 2) + 1))

\* f"test{...}_Case{i+1}"
TestMethodName(gap, i) ==
    "test" \o Str(CapitalizedName(gap)) \o "_Case" \o Str(StrOfNat(i + 1))

\* the name the generated code declares
DeclaredName(gap, test_index) ==
    "test" \o Str(CapitalizedName(gap))
        \o (IF test_index = 0 THEN "Case1"
            ELSE IF test_index = 1 THEN "Case2" ELSE "Case3")

\* generate_test_code choosing the body by test_index modulo 3
generate_test_code_modulo(gap, test_index) ==
    LET method_name == Str(SplitFirst(gap.method_name, "("))
        class_simple_name == Str(SplitLast(gap.class_name, "."))
        open == "    @Test\n    public void " \o DeclaredName(gap, test_index)
                    \o "() {\n        " \o class_simple_name \o " instance = new "
                    \o class_simple_name \o "();\n"
    IN IF test_index % 3 = 0
       THEN open \o "        assertNotNull(instance);\n        \n        instance."
                 \o method_name
                 \o "();\n        \n        assertEquals(instance, instance);\n    }"
       ELSE IF test_index % 3 = 1
       THEN open \o "        \n        assertDoesNotThrow(() -> {\n            instance."
                 \o method_name
                 \o "();\n        });\n        \n        assertNotNull(instance);\n    }"
       ELSE open \o "        instance." \o method_name
                 \o "();\n        \n        Object result = instance;\n"
                 \o "        assertNotNull(result);\n        assertTrue(result instanceof "
                 \o class_simple_name \o ");\n    }"

\* _generate_test_code
generate_test_code(gap, test_index) ==
    LET method_name == Str(SplitFirst(gap.method_name, "("))
        class_simple_name == Str(SplitLast(gap.class_name, "."))
        open == "    @Test\n    public void " \o DeclaredName(gap, test_index)
                    \o "() {\n        " \o class_simple_name \o " instance = new "
                    \o class_simple_name \o "();\n"
    IN IF test_index = 0
       THEN open \o "        assertNotNull(instance);\n        \n        instance."
                 \o method_name
                 \o "();\n        \n        assertEquals(instance, instance);\n    }"
       ELSE IF test_index = 1
       THEN open \o "        \n        assertDoesNotThrow(() -> {\n            instance."
                 \o method_name
                 \o "();\n        });\n        \n        assertNotNull(instance);\n    }"
       ELSE open \o "        instance." \o method_name
                 \o "();\n        \n        Object result = instance;\n"
                 \o "        assertNotNull(result);\n        assertTrue(result instanceof "
                 \o class_simple_name \o ");\n    }"

\* the GeneratedTest of one (gap, case index)
TestOf(gap, i) ==
    [class_name       |-> get_test_class_name(gap.class_name),
     test_method_name |-> TestMethodName(gap, i),
     test_code        |-> generate_test_code(gap, i),
     target_class     |-> gap.class_name,
     target_method    |-> gap.method_name]

\* generate_tests_for_method with the cases in descending index
generate_tests_for_method_descending(gap, num_tests) ==
    [k \in 1..num_tests |-> TestOf(gap, num_tests - k)]

\* _generate_tests_for_method: range(num_tests) is empty for num_tests <= 0
generate_tests_for_method(gap, num_tests) ==
    [k \in 1..num_tests |-> TestOf(gap, k - 1)]

\* gap.method_name.split raises AttributeError on None, in the first pass of
\* the loop over range(num_tests)
MethodRaisesOnNone(gap, num_tests) == num_tests > 0 /\ gap.method_name = None

\* generate_tests(gaps, max_tests_per_gap)
generate_tests(gaps, max_tests_per_gap) ==
    IF \E k \in 1..Len(Considered(gaps)) :
           MethodRaisesOnNone(Considered(gaps)[k], max_tests_per_gap)
    THEN [status |-> "raised", error |-> "AttributeError",
          max_tests_per_gap |-> max_tests_per_gap]
    ELSE [status |-> "returned", max_tests_per_gap |-> max_tests_per_gap,
          tests |-> Flatten([k \in 1..Len(Considered(gaps)) |->
                       generate_tests_for_method(Considered(gaps)[k],
                                                 max_tests_per_gap)])]

\* DictPut keeping the first test of a name
DictPutKeepFirst(dict, t) ==
    IF \E k \in 1..Len(dict) : dict[k].test_method_name = t.test_method_name
    THEN dict
    ELSE Append(dict, t)

\* {t.test_method_name: t for t in tests}: a dict keeps a key at the place
\* of its first insertion and the value of its last.
DictPut(dict, t) ==
    IF \E k \in 1..Len(dict) : dict[k].test_method_name = t.test_method_name
    THEN [k \in 1..Len(dict) |->
             IF dict[k].test_method_name = t.test_method_name THEN t ELSE dict[k]]
    ELSE Append(dict, t)

RECURSIVE UniqueTests(_)
UniqueTests(tests) ==
    IF Len(tests) = 0 THEN <<>>
    ELSE DictPut(UniqueTests(SubSeq(tests, 1, Len(tests) - 1)), tests[Len(tests)])

\* sep.join(strings)
RECURSIVE Join(_, _)
Join(sep, strings) ==
    IF Len(strings) = 0 THEN ""
    ELSE IF Len(strings) = 1 THEN strings[1]
    ELSE strings[1] \o sep \o Join(sep, Tail(strings))

\* "\n\n".join(t.test_code for t in unique_tests.values())
TestMethods(tests) ==
    Join("\n\n", [k \in 1..Len(UniqueTests(tests)) |-> UniqueTests(tests)[k].test_code])

\* FileHead without the placeholder field and the setup hook
FileHeadNoSetup(test_class_name, package_name) ==
    "package " \o package_name \o ".test;\n\nimport org.junit.jupiter.api.Test;\n"
        \o "import org.junit.jupiter.api.BeforeEach;\n"
        \o "import static org.junit.jupiter.api.Assertions.*;\nimport "
        \o package_name \o ".*;\n\npublic class " \o test_class_name
        \o " {\n    \n"

\* the document before and after {test_methods}
FileHead(test_class_name, package_name) ==
    "package " \o package_name \o ".test;\n\nimport org.junit.jupiter.api.Test;\n"
        \o "import org.junit.jupiter.api.BeforeEach;\n"
        \o "import static org.junit.jupiter.api.Assertions.*;\nimport "
        \o package_name \o ".*;\n\npublic class " \o test_class_name
        \o " {\n    \n    private Object instance;\n    \n    @BeforeEach\n"
        \o "    public void setUp() {\n        // Initialize test fixtures\n    }\n    \n"

FileTail == "\n}\n"

\* format_test_file(test_class_name, package_name, tests)
format_test_file(test_class_name, package_name, tests) ==
    FileHead(test_class_name, package_name) \o TestMethods(tests) \o FileTail

(***************************************************************************)
(* The reports handed to parse_report.  A report file is written element   *)
(* by element in document order; it can be parsed at any point, and it can *)
(* be missing or cut short (not well-formed) instead.                      *)
(***************************************************************************)
PackageNames == {<<"a", "/", "b">>}

ClassNames == {<<"W">>}

MethodNames == {<<"g", "V">>, <<"r">>}

Descs == {<<"(", ")", "V">>}

\* a counter covers MaxCount items, or none at all
CountPairs ==
    {p \in (0..MaxCount) \X (0..MaxCount) : p[1] + p[2] \in {0, MaxCount}}

CounterKinds == {"LINE", "BRANCH"}

Counters ==
    {[type |-> kind, covered |-> StrOfNat(p[1]), missed |-> StrOfNat(p[2])] :
        kind \in CounterKinds, p \in CountPairs}

Lines == [nr : {StrOfNat(n) : n \in 1..MaxLineNr}, ci : {StrOfNat(0), StrOfNat(1)}]

NodesOfMethod(m) == 1 + Len(m.counters) + Len(m.lines)

RECURSIVE Sum(_)
Sum(ns) == IF Len(ns) = 0 THEN 0 ELSE Head(ns) + Sum(Tail(ns))

NodesOfClass(c) ==
    1 + Len(c.counters) + Sum([i \in 1..Len(c.methods) |-> NodesOfMethod(c.methods[i])])

NodesOfPackage(p) ==
    1 + Len(p.counters) + Sum([i \in 1..Len(p.classes) |-> NodesOfClass(p.classes[i])])

Nodes(root) ==
    Len(root.counters)
        + Sum([i \in 1..Len(root.packages) |-> NodesOfPackage(root.packages[i])])

Writing == source.kind = "xml" /\ outcome.status = "none" /\ pctOut.status = "none"

\* the open (last) package, class and method of the document so far
NP == Len(source.root.packages)

HasPackage == NP > 0 /\ source.root.counters = <<>>

LastPackage == source.root.packages[NP]

NC == Len(LastPackage.classes)

HasClass == HasPackage /\ NC > 0 /\ LastPackage.counters = <<>>

LastClass == LastPackage.classes[NC]

NM == Len(LastClass.methods)

HasMethod == HasClass /\ NM > 0 /\ LastClass.counters = <<>>

LastMethod == LastClass.methods[NM]

Others == UNCHANGED <<outcome, gapsIn, genOut, fmtIn, fmtOut, pctOut>>

SetRoot(root) == source' = [source EXCEPT !.root = root] /\ Others

AddPackage(name) ==
    /\ Writing /\ source.root.counters = <<>>
    /\ SetRoot([source.root EXCEPT !.packages =
           Append(@, [name |-> name, classes |-> <<>>, counters |-> <<>>])])

AddClass(name) ==
    /\ Writing /\ HasPackage /\ LastPackage.counters = <<>>
    /\ SetRoot([source.root EXCEPT !.packages[NP].classes =
           Append(@, [name |-> name, methods |-> <<>>, counters |-> <<>>])])

AddMethod(name, desc) ==
    /\ Writing /\ HasClass /\ LastClass.counters = <<>>
    /\ SetRoot([source.root EXCEPT !.packages[NP].classes[NC].methods =
           Append(@, [name |-> name, desc |-> desc,
                      lines |-> <<>>, counters |-> <<>>])])

AddLine(line) ==
    /\ Writing /\ HasMethod /\ LastMethod.counters = <<>>
    /\ SetRoot([source.root EXCEPT
           !.packages[NP].classes[NC].methods[NM].lines = Append(@, line)])

AddMethodCounter(c) ==
    /\ Writing /\ HasMethod /\ Len(LastMethod.counters) < MaxCountersPerNode
    /\ SetRoot([source.root EXCEPT
           !.packages[NP].classes[NC].methods[NM].counters = Append(@, c)])

AddClassCounter(c) ==
    /\ Writing /\ HasClass /\ Len(LastClass.counters) < MaxCountersPerNode
    /\ SetRoot([source.root EXCEPT
           !.packages[NP].classes[NC].counters = Append(@, c)])

AddPackageCounter(c) ==
    /\ Writing /\ HasPackage /\ Len(LastPackage.counters) < MaxCountersPerNode
    /\ SetRoot([source.root EXCEPT !.packages[NP].counters = Append(@, c)])

AddRootCounter(c) ==
    /\ Writing /\ Len(source.root.counters) < MaxCountersPerNode
    /\ SetRoot([source.root EXCEPT !.counters = Append(@, c)])

\* The file is not there, or what is there is not well-formed.
Unreadable(kind) ==
    /\ source.kind = "xml" /\ outcome.status = "none"
    /\ source' = [source EXCEPT !.kind = kind]
    /\ Others

\* report = JaCoCoParser.parse_report(report_path)
ParseReport ==
    /\ outcome.status = "none"
    /\ outcome' = parse_report(source)
    /\ UNCHANGED <<source, gapsIn, genOut, fmtIn, fmtOut, pctOut>>

NoFmtIn == [test_class_name |-> "", package_name |-> "", tests |-> <<>>]

Init ==
    /\ source = [kind |-> "xml", root |-> EmptyRoot]
    /\ outcome = [status |-> "none"]
    /\ gapsIn = <<>>
    /\ genOut = [status |-> "none"]
    /\ fmtIn = NoFmtIn
    /\ fmtOut = [status |-> "none"]
    /\ pctOut = [status |-> "none"]

\* Reports of packages, classes and methods with the methods' counters,
\* readable or not.
Next ==
    \/ Nodes(source.root) < MaxNodes /\ \E name \in PackageNames : AddPackage(name)
    \/ Nodes(source.root) < MaxNodes /\ \E name \in ClassNames : AddClass(name)
    \/ Nodes(source.root) < MaxNodes
          /\ \E name \in MethodNames, desc \in Descs : AddMethod(name, desc)
    \/ Nodes(source.root) < MaxNodes /\ \E line \in Lines : AddLine(line)
    \/ Nodes(source.root) < MaxNodes /\ \E c \in Counters : AddMethodCounter(c)
    \/ \E kind \in {"missing", "malformed"} : Unreadable(kind)
    \/ ParseReport

Spec == Init /\ [][Next]_vars

\* Readable reports with counters at every level: in the methods, the
\* classes and the packages, and at the top of the report.
MethodOfTotals == <<"r">>

NextTotals ==
    \/ Nodes(source.root) < MaxTotalsNodes /\ \E name \in PackageNames : AddPackage(name)
    \/ Nodes(source.root) < MaxTotalsNodes /\ \E name \in ClassNames : AddClass(name)
    \/ Nodes(source.root) < MaxTotalsNodes
          /\ \E desc \in Descs : AddMethod(MethodOfTotals, desc)
    \/ Nodes(source.root) < MaxTotalsNodes /\ \E c \in Counters : AddMethodCounter(c)
    \/ Nodes(source.root) < MaxTotalsNodes /\ \E c \in Counters : AddClassCounter(c)
    \/ Nodes(source.root) < MaxTotalsNodes /\ \E c \in Counters : AddPackageCounter(c)
    \/ Nodes(source.root) < MaxTotalsNodes /\ \E c \in Counters : AddRootCounter(c)
    \/ ParseReport

SpecTotals == Init /\ [][NextTotals]_vars

(***************************************************************************)
(* Reports whose counters are not all well-formed: a count can be absent   *)
(* (the default 0 applies), empty or not a number.  _get_coverage_percent  *)
(* is called on one class or method element, or the report is parsed.      *)
(***************************************************************************)
AbsentCounts ==
    {[type |-> kind, covered |-> None, missed |-> StrOfNat(MaxCount)] :
        kind \in CounterKinds}

InvalidCounters ==
    {[type |-> kind, covered |-> <<"x">>, missed |-> StrOfNat(MaxCount)] :
        kind \in CounterKinds}
        \cup {[type |-> kind, covered |-> StrOfNat(0), missed |-> <<>>] :
                  kind \in CounterKinds}

AnyCounters == Counters \cup AbsentCounts \cup InvalidCounters

\* JaCoCoParser._get_coverage_percent(element, kind)
GetCoveragePercent(pos, kind) ==
    /\ source.kind = "xml" /\ outcome.status = "none" /\ pctOut.status = "none"
    /\ pos \in Elements(source.root)
    /\ pctOut' =
          IF get_coverage_percent_raises(ElementAt(source.root, pos), kind)
          THEN [status |-> "raised", error |-> "ValueError",
                element |-> pos, kind |-> kind]
          ELSE [status |-> "returned", element |-> pos, kind |-> kind,
                value |-> get_coverage_percent(ElementAt(source.root, pos), kind)]
    /\ UNCHANGED <<source, outcome, gapsIn, genOut, fmtIn, fmtOut>>

NextCounters ==
    \/ Nodes(source.root) < MaxTotalsNodes /\ \E name \in PackageNames : AddPackage(name)
    \/ Nodes(source.root) < MaxTotalsNodes /\ \E name \in ClassNames : AddClass(name)
    \/ Nodes(source.root) < MaxTotalsNodes
          /\ \E desc \in Descs : AddMethod(MethodOfTotals, desc)
    \/ Nodes(source.root) < MaxTotalsNodes /\ \E c \in AnyCounters : AddMethodCounter(c)
    \/ Nodes(source.root) < MaxTotalsNodes /\ \E c \in AnyCounters : AddClassCounter(c)
    \/ \E pos \in Elements(source.root), kind \in CounterKinds :
          GetCoveragePercent(pos, kind)
    \/ ParseReport

SpecCounters == Init /\ [][NextCounters]_vars

(***************************************************************************)
(* The calls of generate_tests: a gap list of at most MaxRuns runs of      *)
(* equal gaps, long enough to pass the cap, and a number of tests per gap. *)
(***************************************************************************)
MaxRuns == 2    \* runs of equal consecutive gaps in one gap list
MaxTests == 4   \* max_tests_per_gap ranges over -1..MaxTests

MaxGaps == GapCap + 2

Gap(class_name, method_name, package_name, line_coverage) ==
    [class_name      |-> class_name,
     method_name     |-> method_name,
     package_name    |-> package_name,
     line_coverage   |-> line_coverage,
     branch_coverage |-> Zero,
     uncovered_lines |-> <<>>]

\* a.b.W.gV(I)V, its overload a.b.W.gV()V, .X.r of the default package (no
\* descriptor), and a class-level gap of a.b.W (no method signature)
GapGetter == Gap(<<"a", ".", "b", ".", "W">>, <<"g", "V", "(", "I", ")", "V">>,
                 <<"a", "/", "b">>, Zero)

GapOverload == Gap(<<"a", ".", "b", ".", "W">>, <<"g", "V", "(", ")", "V">>,
                   <<"a", "/", "b">>, Percent(1, 2))

GapPlain == Gap(<<".", "X">>, <<"r">>, <<>>, Percent(1, 2))

GapClassLevel == Gap(<<"a", ".", "b", ".", "W">>, None, <<"a", "/", "b">>, Zero)

GenGaps == {GapGetter, GapOverload, GapPlain, GapClassLevel}

Runs(seq) == Cardinality({i \in 1..Len(seq) : i = 1 \/ seq[i] # seq[i - 1]})

AppendGap(gap) ==
    /\ genOut.status = "none"
    /\ Len(gapsIn) < MaxGaps
    /\ Runs(Append(gapsIn, gap)) <= MaxRuns
    /\ gapsIn' = Append(gapsIn, gap)
    /\ UNCHANGED <<source, outcome, genOut, fmtIn, fmtOut, pctOut>>

\* tests = JavaTestGenerator.generate_tests(gaps, max_tests_per_gap)
GenerateTests(max_tests_per_gap) ==
    /\ genOut.status = "none"
    /\ genOut' = generate_tests(gapsIn, max_tests_per_gap)
    /\ UNCHANGED <<source, outcome, gapsIn, fmtIn, fmtOut, pctOut>>

NextGen ==
    \/ \E gap \in GenGaps : AppendGap(gap)
    \/ \E n \in -1..MaxTests : GenerateTests(n)

SpecGen == Init /\ [][NextGen]_vars

(***************************************************************************)
(* The calls of format_test_file: a list of generated tests, two of them   *)
(* to a name, and the names of the class and the package.                  *)
(***************************************************************************)
MaxFmtTests == 4   \* tests in one call of format_test_file

\* .X.gV()V: the bare name of GapGetter in another class
GapOtherClass == Gap(<<".", "X">>, <<"g", "V", "(", ")", "V">>, <<>>, Zero)

FmtTests == {TestOf(gap, i) : gap \in {GapGetter, GapOtherClass}, i \in 0..1}

AppendTest(t) ==
    /\ fmtOut.status = "none"
    /\ Len(fmtIn.tests) < MaxFmtTests
    /\ fmtIn' = [fmtIn EXCEPT !.tests = Append(@, t)]
    /\ UNCHANGED <<source, outcome, gapsIn, genOut, fmtOut, pctOut>>

\* test_file = JavaTestGenerator.format_test_file(test_class_name,
\*                                                package_name, gap_tests)
FormatTestFile(test_class_name, package_name) ==
    /\ fmtOut.status = "none"
    /\ fmtIn' = [fmtIn EXCEPT !.test_class_name = test_class_name,
                              !.package_name = package_name]
    /\ fmtOut' = [status |-> "returned",
                  text |-> format_test_file(test_class_name, package_name,
                                            fmtIn.tests)]
    /\ UNCHANGED <<source, outcome, gapsIn, genOut, pctOut>>

NextFmt ==
    \/ \E t \in FmtTests : AppendTest(t)
    \/ \E pkg \in {"a/b", ""} : FormatTestFile("WTest", pkg)

SpecFmt == Init /\ [][NextFmt]_vars

(***************************************************************************)
(* The pipeline of the demo: a report is parsed, tests are generated for   *)
(* its gaps and the tests of the first gap's class are assembled into one  *)
(* document (none when the report has no gap).  The packages and           *)
(* classes carry the names a report can give them: a path, a plain name,   *)
(* the empty name, no name attribute.                                      *)
(***************************************************************************)
MaxPipelineNodes == 5   \* elements of one report of the pipeline

PipelinePackageNames == PackageNames \cup {<<>>, None}

PipelineClassNames == ClassNames \cup {<<"c", "/", "X">>}

\* tests = JavaTestGenerator.generate_tests(report.gaps, max_tests_per_gap)
GenerateFromReport(max_tests_per_gap) ==
    /\ outcome.status = "returned" /\ genOut.status = "none"
    /\ gapsIn' = outcome.report.gaps
    /\ genOut' = generate_tests(outcome.report.gaps, max_tests_per_gap)
    /\ UNCHANGED <<source, outcome, fmtIn, fmtOut, pctOut>>

\* demo.py, formatting the first test file
\* gap_tests = [t for t in tests if t.target_class == target_gap.class_name]
GapTests(tests, target_gap) ==
    SelectSeq(tests, LAMBDA t : t.target_class = target_gap.class_name)

\* target_gap = report.gaps[0] raises IndexError on an empty list; the file
\* is formatted only if gap_tests is not empty
FormatFirstGroup ==
    /\ genOut.status = "returned"
    /\ fmtOut.status = "none"
    /\ IF gapsIn = <<>>
       THEN /\ fmtOut' = [status |-> "raised", error |-> "IndexError"]
            /\ UNCHANGED fmtIn
       ELSE LET target_gap == gapsIn[1]
                gap_tests == GapTests(genOut.tests, target_gap)
            IN IF gap_tests = <<>>
               THEN /\ fmtOut' = [status |-> "skipped"]
                    /\ UNCHANGED fmtIn
               ELSE /\ fmtIn' = [test_class_name |-> gap_tests[1].class_name,
                                 package_name |-> Str(target_gap.package_name),
                                 tests |-> gap_tests]
                    /\ fmtOut' = [status |-> "returned",
                                  text |-> format_test_file(
                                               gap_tests[1].class_name,
                                               Str(target_gap.package_name),
                                               gap_tests)]
    /\ UNCHANGED <<source, outcome, gapsIn, genOut, pctOut>>

NextPipeline ==
    \/ Nodes(source.root) < MaxPipelineNodes
          /\ \E name \in PipelinePackageNames : AddPackage(name)
    \/ Nodes(source.root) < MaxPipelineNodes
          /\ \E name \in PipelineClassNames : AddClass(name)
    \/ Nodes(source.root) < MaxPipelineNodes
          /\ \E name \in MethodNames, desc \in Descs : AddMethod(name, desc)
    \/ Nodes(source.root) < MaxPipelineNodes
          /\ \E c \in Counters : c.type = "LINE" /\ AddMethodCounter(c)
    \/ ParseReport
    \/ \E n \in 0..MaxTests : GenerateFromReport(n)
    \/ FormatFirstGroup

SpecPipeline == Init /\ [][NextPipeline]_vars

(***************************************************************************)
(* The three operations called one on the result of the other:            *)
(* format_test_file on all the tests generate_tests returns for the gaps   *)
(* of a parsed report, under a class name and a package name of the        *)
(* caller's choice.  The reports have no counters: every method is a gap.  *)
(***************************************************************************)
\* JavaTestGenerator.format_test_file(test_class_name, package_name, tests)
FormatGenerated(test_class_name, package_name) ==
    /\ genOut.status = "returned" /\ fmtOut.status = "none"
    /\ fmtIn' = [test_class_name |-> test_class_name,
                 package_name |-> package_name, tests |-> genOut.tests]
    /\ fmtOut' = [status |-> "returned",
                  text |-> format_test_file(test_class_name, package_name,
                                            genOut.tests)]
    /\ UNCHANGED <<source, outcome, gapsIn, genOut, pctOut>>

NextCalls ==
    \/ Nodes(source.root) < MaxPipelineNodes
          /\ \E name \in PipelinePackageNames : AddPackage(name)
    \/ Nodes(source.root) < MaxPipelineNodes
          /\ \E name \in PipelineClassNames : AddClass(name)
    \/ Nodes(source.root) < MaxPipelineNodes
          /\ \E name \in MethodNames, desc \in Descs : AddMethod(name, desc)
    \/ ParseReport
    \/ \E n \in 0..MaxTests : GenerateFromReport(n)
    \/ \E pkg \in {"a/b", ""} : FormatGenerated("WTest", pkg)

SpecCalls == Init /\ [][NextCalls]_vars

(***************************************************************************)
(* The assembly step of the demo: the tests generated for the class of     *)
(* the first gap are collected and formatted into one test file.           *)
(***************************************************************************)
MaxAssemblyGaps == 3   \* gaps in the list the demo generates tests for

NextAssembly ==
    \/ \E gap \in GenGaps : Len(gapsIn) < MaxAssemblyGaps /\ AppendGap(gap)
    \/ \E n \in -1..MaxTests : GenerateTests(n)
    \/ FormatFirstGroup

SpecAssembly == Init /\ [][NextAssembly]_vars

(***************************************************************************)
(* The demo on reports of one class with more gap methods than the         *)
(* generator considers: methods m1, m2, ... in document order, a few of    *)
(* them with a LINE counter that records covered lines.                    *)
(***************************************************************************)
MaxRankedCounters == 2   \* methods of the report that carry a counter

DemoTests == 2           \* max_tests_per_gap of the demo's call

RankedName(i) == <<"m">> \o StrOfNat(i)

RankedCounters ==
    {c \in Counters : c.type = "LINE" /\ c.covered # StrOfNat(0)}

WithCounter ==
    Cardinality({i \in 1..NM : LastClass.methods[i].counters # <<>>})

NextRanking ==
    \/ NP = 0 /\ \E name \in PackageNames : AddPackage(name)
    \/ NP = 1 /\ NC = 0 /\ \E name \in ClassNames : AddClass(name)
    \/ NP = 1 /\ NC = 1 /\ NM < MaxGaps
          /\ \E desc \in Descs : AddMethod(RankedName(NM + 1), desc)
    \/ NP = 1 /\ NC = 1 /\ NM > 0 /\ LastMethod.counters = <<>>
          /\ WithCounter < MaxRankedCounters
          /\ \E c \in RankedCounters : AddMethodCounter(c)
    \/ ParseReport
    \/ \E n \in 0..DemoTests : GenerateFromReport(n)

SpecRanking == Init /\ [][NextRanking]_vars

(***************************************************************************)
(* Properties of parse_report.                                             *)
(***************************************************************************)
Returned == outcome.status = "returned"

Report == outcome.report

\* Rule 5 for a node's own counters: the percentage of its counter of the
\* kind, 0 when it has none or covered + missed = 0.
OwnCounters(node, kind) ==
    {i \in 1..Len(node.counters) :
        node.counters[i].type = kind /\ CounterTotal(node.counters[i]) > 0}

OwnPercent(node, kind) ==
    IF OwnCounters(node, kind) = {} THEN Zero
    ELSE LET i == CHOOSE i \in OwnCounters(node, kind) :
                      \A j \in OwnCounters(node, kind) : i <= j
         IN Frac(100 * AttrInt(node.counters[i].covered),
                 CounterTotal(node.counters[i]))

InRange(p) == ~Less(p, Zero) /\ ~Less(Hundred, p)

Occurrences(seq, x) == Cardinality({i \in 1..Len(seq) : seq[i] = x})

BelowHundred(root) ==
    {pos \in MethodNodes(root) : Less(OwnPercent(MethodAt(root, pos), "LINE"), Hundred)}

RecordOf(root, pos) == GapOf(PackageAt(root, pos), ClassAt(root, pos), MethodAt(root, pos))

\* C1 (gap membership): the gaps of a returned report are, one for one, the
\* records of the method nodes whose own LINE percentage is below 100; a
\* method at exactly 100 has no record, whatever its BRANCH percentage.
GapMembership ==
    Returned =>
        /\ Len(Report.gaps) = Cardinality(BelowHundred(source.root))
        /\ \A pos \in BelowHundred(source.root) :
              Occurrences(Report.gaps, RecordOf(source.root, pos))
                  = Cardinality({q \in BelowHundred(source.root) :
                                    RecordOf(source.root, q) = RecordOf(source.root, pos)})

\* A report with a gap method, and a fully line-covered method whose
\* branches are not fully covered and that has no record.
GapMembershipWitness ==
    /\ Returned
    /\ Len(Report.gaps) = 1
    /\ \E pos \in MethodNodes(source.root) :
          /\ OwnPercent(MethodAt(source.root, pos), "LINE") = Hundred
          /\ Less(OwnPercent(MethodAt(source.root, pos), "BRANCH"), Hundred)
          /\ OwnCounters(MethodAt(source.root, pos), "BRANCH") # {}

\* the gaps of the sequence with line coverage v, in their order
WithCoverage(gaps, v) ==
    LET Has(g) == g.line_coverage = v IN SelectSeq(gaps, Has)

\* C2 (sort stability): the returned gaps are non-decreasing in line
\* coverage, and the gaps of equal line coverage are in traversal order.
SortStability ==
    Returned =>
        /\ \A i, j \in 1..Len(Report.gaps) :
              i < j => ~Less(Report.gaps[j].line_coverage, Report.gaps[i].line_coverage)
        /\ \A k \in 1..Len(Report.gaps) :
              WithCoverage(Report.gaps, Report.gaps[k].line_coverage)
                  = WithCoverage(TraversalGaps(source.root), Report.gaps[k].line_coverage)
        /\ Len(Report.gaps) = Len(TraversalGaps(source.root))

\* Three gaps: the first met has the highest coverage, the other two tie
\* and differ.
SortStabilityWitness ==
    /\ Returned
    /\ Len(Report.gaps) = 3
    /\ Report.gaps[1].line_coverage = Report.gaps[2].line_coverage
    /\ Report.gaps[1] # Report.gaps[2]
    /\ Report.gaps[3] = TraversalGaps(source.root)[1]
    /\ Less(Report.gaps[2].line_coverage, Report.gaps[3].line_coverage)

\* the maximum of the classes' own percentages, 0 without a class
ClassMaximum(root, kind) ==
    IF ClassNodes(root) = {} THEN Zero
    ELSE LET best == CHOOSE b \in ClassNodes(root) :
                        \A c \in ClassNodes(root) :
                            ~Less(OwnPercent(ClassAt(root, b), kind),
                                  OwnPercent(ClassAt(root, c), kind))
         IN OwnPercent(ClassAt(root, best), kind)

\* C3 as claimed: without top-level counters the totals are the class
\* maxima, whatever counters are nested in packages, classes and methods.
TotalsAreClassMaxima ==
    (Returned /\ source.root.counters = <<>>) =>
        /\ Report.total_line_coverage = ClassMaximum(source.root, "LINE")
        /\ Report.total_branch_coverage = ClassMaximum(source.root, "BRANCH")

\* the report root carries a summary counter of the kind (exactly one)
HasRootCounter(root, kind) ==
    Cardinality({i \in 1..Len(root.counters) : root.counters[i].type = kind}) = 1

\* C4 as claimed: a top-level counter of a kind makes the total of that kind
\* its rule-5 percentage, 0 when covered + missed = 0.
TopLevelOverrides ==
    Returned =>
        /\ HasRootCounter(source.root, "LINE") =>
              Report.total_line_coverage = OwnPercent(source.root, "LINE")
        /\ HasRootCounter(source.root, "BRANCH") =>
              Report.total_branch_coverage = OwnPercent(source.root, "BRANCH")

\* the last top-level counter of the kind with covered + missed > 0
LastRootCounter(root, kind) ==
    CHOOSE i \in OwnCounters(root, kind) : \A j \in OwnCounters(root, kind) : j <= i

\* the total the passes over the packages' content leave: the report with
\* its top-level counters taken away
WithoutRootCounters(root) == [root EXCEPT !.counters = <<>>]

\* C4 as amended: the last top-level counter of the kind with
\* covered + missed > 0 decides the total of that kind; where no top-level
\* counter of the kind has covered + missed > 0 the total is the one the
\* report without its top-level counters has (it is not set to 0).
TopLevelOverridesPositive ==
    Returned =>
        \A kind \in CounterKinds :
            LET total == IF kind = "LINE" THEN Report.total_line_coverage
                         ELSE Report.total_branch_coverage
            IN IF OwnCounters(source.root, kind) # {}
               THEN LET c == source.root.counters[LastRootCounter(source.root, kind)]
                    IN total = Frac(100 * AttrInt(c.covered), CounterTotal(c))
               ELSE total = TotalCoverage(WithoutRootCounters(source.root), kind)

\* A top-level LINE counter with covered + missed > 0 replaces a different
\* class maximum, and a top-level BRANCH counter with covered + missed = 0
\* leaves a positive total.
TopLevelOverridesWitness ==
    /\ Returned
    /\ OwnCounters(source.root, "LINE") # {}
    /\ Report.total_line_coverage # ClassMaximum(source.root, "LINE")
    /\ HasRootCounter(source.root, "BRANCH")
    /\ OwnCounters(source.root, "BRANCH") = {}
    /\ Less(Zero, Report.total_branch_coverage)

\* C5 (totals are bounded): both totals and every gap's percentages lie in
\* [0, 100].
TotalsBounded ==
    Returned =>
        /\ InRange(Report.total_line_coverage)
        /\ InRange(Report.total_branch_coverage)
        /\ \A k \in 1..Len(Report.gaps) :
              /\ InRange(Report.gaps[k].line_coverage)
              /\ InRange(Report.gaps[k].branch_coverage)

\* Both ends of the range are met: a line total of exactly 100 beside a
\* branch total of 0, with a gap strictly inside the range.
TotalsBoundedWitness ==
    /\ Returned
    /\ Report.total_line_coverage = Hundred
    /\ Report.total_branch_coverage = Zero
    /\ \E k \in 1..Len(Report.gaps) :
          /\ Less(Zero, Report.gaps[k].line_coverage)
          /\ Less(Report.gaps[k].line_coverage, Hundred)

\* the error outcomes the specification calls ReportUnreadable
ReportUnreadable == {"FileNotFoundError", "ParseError"}

\* C9 (parse failure is terminal): on a source that cannot be opened or is
\* not well-formed the call ends in a ReportUnreadable error and hands no
\* report, whole or partial, to the caller.
ParseFailureTerminal ==
    (source.kind \in {"missing", "malformed"} /\ outcome.status # "none") =>
        /\ outcome.status = "raised"
        /\ outcome.error \in ReportUnreadable
        /\ "report" \notin DOMAIN outcome

\* The call has failed on a source cut short after some elements with
\* gaps in them.
ParseFailureTerminalWitness ==
    /\ source.kind = "malformed"
    /\ outcome.status = "raised"
    /\ TraversalGaps(source.root) # <<>>

(***************************************************************************)
(* Properties of generate_tests.                                           *)
(***************************************************************************)
Generated == genOut.status = "returned"

\* the gap and the case index the k-th test belongs to, with n tests a gap
GapIndexOf(k, n) == ((k - 1) \div n) + 1

CaseIndexOf(k, n) == (k - 1) % n

Min(a, b) == IF a < b THEN a ELSE b

\* C6 as claimed (generator cap): for every gap list and every
\* max_tests_per_gap >= 0 the call produces min(10, len(gaps)) *
\* max_tests_per_gap tests, each for one of the first 10 gaps.
GeneratorCap ==
    (genOut.status # "none" /\ genOut.max_tests_per_gap >= 0) =>
        /\ Generated
        /\ Len(genOut.tests) = Min(GapCap, Len(gapsIn)) * genOut.max_tests_per_gap
        /\ \A k \in 1..Len(genOut.tests) :
              /\ GapIndexOf(k, genOut.max_tests_per_gap) <= GapCap
              /\ genOut.tests[k].target_method
                     = gapsIn[GapIndexOf(k, genOut.max_tests_per_gap)].method_name

\* The cap on the calls that return: the count, and every test for one of
\* the first 10 gaps.
GeneratorCapReturned ==
    Generated =>
        /\ Len(genOut.tests)
               = Min(GapCap, Len(gapsIn))
                     * (IF genOut.max_tests_per_gap < 0 THEN 0
                        ELSE genOut.max_tests_per_gap)
        /\ \A k \in 1..Len(genOut.tests) :
              /\ GapIndexOf(k, genOut.max_tests_per_gap) <= GapCap
              /\ genOut.tests[k].target_method
                     = gapsIn[GapIndexOf(k, genOut.max_tests_per_gap)].method_name
              /\ genOut.tests[k].target_class
                     = gapsIn[GapIndexOf(k, genOut.max_tests_per_gap)].class_name

\* a call that returns tests for 10 gaps of a longer list with two
\* different gaps behind the cap
GeneratorCapReturnedWitness ==
    /\ Generated
    /\ Len(gapsIn) = GapCap + 2
    /\ gapsIn[GapCap + 1] # gapsIn[GapCap]
    /\ gapsIn[GapCap + 2] = GapClassLevel
    /\ genOut.max_tests_per_gap = 2

\* the name with only its first character upper-cased
UpperFirst(s) == [i \in 1..Len(s) |-> IF i = 1 THEN ToUpper(s[i]) ELSE s[i]]

\* C7 as claimed (test naming): the name of the case of index i of a gap is
\* 'test' + B' + '_Case' + (i+1), B the signature before its first '(' and
\* B' B with only its first character upper-cased.
TestNaming ==
    Generated =>
        \A k \in 1..Len(genOut.tests) :
            LET gap == gapsIn[GapIndexOf(k, genOut.max_tests_per_gap)]
                i == CaseIndexOf(k, genOut.max_tests_per_gap)
            IN genOut.tests[k].test_method_name
                   = "test" \o Str(UpperFirst(SplitFirst(gap.method_name, "(")))
                         \o "_Case" \o Str(StrOfNat(i + 1))

\* C10 as claimed (generation is total): no call raises, and a call with no
\* gap or with max_tests_per_gap = 0 returns no test.
GenerationTotal ==
    genOut.status # "none" =>
        /\ Generated
        /\ (gapsIn = <<>> \/ genOut.max_tests_per_gap = 0) => genOut.tests = <<>>

(***************************************************************************)
(* Properties of format_test_file.                                         *)
(***************************************************************************)
Formatted == fmtOut.status = "returned"

\* the places of the tests whose name does not occur earlier in the list
FirstPlaces(tests) ==
    LET IsFirst(i) == \A j \in 1..(i - 1) :
                          tests[j].test_method_name # tests[i].test_method_name
        RECURSIVE From(_)
        From(i) == IF i > Len(tests) THEN <<>>
                   ELSE (IF IsFirst(i) THEN <<i>> ELSE <<>>) \o From(i + 1)
    IN From(1)

\* the body of the last test of the list carrying the name
LastBody(tests, name) ==
    LET last == CHOOSE i \in 1..Len(tests) :
                    /\ tests[i].test_method_name = name
                    /\ \A j \in (i + 1)..Len(tests) : tests[j].test_method_name # name
    IN tests[last].test_code

\* the bodies, one blank line between two of them
RECURSIVE BlankLineSeparated(_)
BlankLineSeparated(bodies) ==
    IF Len(bodies) = 0 THEN ""
    ELSE IF Len(bodies) = 1 THEN bodies[1]
    ELSE bodies[1] \o "\n" \o "\n" \o BlankLineSeparated(Tail(bodies))

\* C8 (document de-duplication and order): the body region of the document
\* holds one body per distinct test name, the body of the last test with the
\* name, in the order of the names' first occurrences, one blank line
\* between two bodies.
DocumentDeduplication ==
    Formatted =>
        fmtOut.text =
            FileHead(fmtIn.test_class_name, fmtIn.package_name)
                \o BlankLineSeparated(
                       [k \in 1..Len(FirstPlaces(fmtIn.tests)) |->
                           LastBody(fmtIn.tests,
                                    fmtIn.tests[FirstPlaces(fmtIn.tests)[k]].test_method_name)])
                \o FileTail

\* A document of two bodies from three tests: the first name comes again,
\* with another body, behind the second name.
DocumentDeduplicationWitness ==
    /\ Formatted
    /\ Len(fmtIn.tests) = 3
    /\ fmtIn.tests[1].test_method_name = fmtIn.tests[3].test_method_name
    /\ fmtIn.tests[1].test_code # fmtIn.tests[3].test_code
    /\ fmtIn.tests[1].test_method_name # fmtIn.tests[2].test_method_name

(***************************************************************************)
(* Properties of the pipeline.                                             *)
(***************************************************************************)
\* the fixed document with nothing between the setup hook and the closing
\* brace: package line, imports, class declaration, placeholder field,
\* setup hook, empty body region, closing brace
EmptyDocument(test_class_name, package_name) ==
    "package " \o package_name \o ".test;\n"
        \o "\n"
        \o "import org.junit.jupiter.api.Test;\n"
        \o "import org.junit.jupiter.api.BeforeEach;\n"
        \o "import static org.junit.jupiter.api.Assertions.*;\n"
        \o "import " \o package_name \o ".*;\n"
        \o "\n"
        \o "public class " \o test_class_name \o " {\n"
        \o "    \n"
        \o "    private Object instance;\n"
        \o "    \n"
        \o "    @BeforeEach\n"
        \o "    public void setUp() {\n"
        \o "        // Initialize test fixtures\n"
        \o "    }\n"
        \o "    \n"
        \o "\n"
        \o "}\n"

\* C11 (empty pipeline): a report without packages and top-level counters
\* parses to totals 0 and no gap; generate_tests over no gap returns no
\* test, whatever max_tests_per_gap; format_test_file over no test returns
\* the complete fixed document with an empty body region.
EmptyPipeline ==
    /\ (outcome.status # "none" /\ source = [kind |-> "xml", root |-> EmptyRoot]) =>
          /\ Returned
          /\ Report = [total_line_coverage |-> Zero, total_branch_coverage |-> Zero,
                       gaps |-> <<>>]
    /\ (genOut.status # "none" /\ gapsIn = <<>>) =>
          /\ Generated
          /\ genOut.tests = <<>>
    /\ (fmtOut.status # "none" /\ fmtIn.tests = <<>>) =>
          /\ Formatted
          /\ fmtOut.text = EmptyDocument(fmtIn.test_class_name, fmtIn.package_name)

\* The empty report has gone through the three steps, with a positive number
\* of tests per gap.
EmptyPipelineWitness ==
    /\ source = [kind |-> "xml", root |-> EmptyRoot]
    /\ Returned
    /\ Generated /\ gapsIn = <<>> /\ genOut.max_tests_per_gap = MaxTests
    /\ Formatted /\ fmtIn.tests = <<>> /\ fmtIn.package_name = "a/b"

\* the text of a name attribute, empty when the element has none
AttrText(v) == IF v = None THEN <<>> ELSE v

\* the text with every '/' rewritten to '.'
Dotted(text) == [i \in 1..Len(text) |-> IF text[i] = "/" THEN "." ELSE text[i]]

HasSlash(text) == \E i \in 1..Len(text) : text[i] = "/"

\* <package name>.<class name> of the class of the method at pos, dotted
QualifiedName(root, pos) ==
    Dotted(AttrText(PackageAt(root, pos).name) \o <<".">>
               \o AttrText(ClassAt(root, pos).name))

\* C12 (qualified class name): every gap's class_name is the name attribute
\* of the enclosing package, a '.', and the name attribute of the class,
\* with every '/' rewritten to '.'; it contains no '/'.
QualifiedClassName ==
    Returned =>
        /\ \A k \in 1..Len(Report.gaps) : ~HasSlash(Report.gaps[k].class_name)
        /\ \A name \in {QualifiedName(source.root, pos) : pos \in MethodNodes(source.root)}
                           \cup {Report.gaps[k].class_name : k \in 1..Len(Report.gaps)} :
              Cardinality({k \in 1..Len(Report.gaps) : Report.gaps[k].class_name = name})
                  = Cardinality({pos \in BelowHundred(source.root) :
                                    QualifiedName(source.root, pos) = name})

\* Gaps named a.b.W (package a/b, class W) and a.b.c.X (class c/X) in one
\* report.
QualifiedClassNameWitness ==
    /\ Returned
    /\ \E k \in 1..Len(Report.gaps) :
          Report.gaps[k].class_name = <<"a", ".", "b", ".", "W">>
    /\ \E k \in 1..Len(Report.gaps) :
          Report.gaps[k].class_name = <<"a", ".", "b", ".", "c", ".", "X">>

\* the name attribute of the package of the method at pos, dotted
DottedPackageName(root, pos) == Dotted(AttrText(PackageAt(root, pos).name))

\* C13 as claimed (package name normalisation): every gap carries the name
\* attribute of its package with every '/' rewritten to '.', so that no '/'
\* reaches the package declaration and the wildcard import.
PackageNameDotted ==
    Returned =>
        /\ \A k \in 1..Len(Report.gaps) : ~HasSlash(Report.gaps[k].package_name)
        /\ \A name \in {DottedPackageName(source.root, pos) :
                           pos \in MethodNodes(source.root)} :
              Cardinality({k \in 1..Len(Report.gaps) :
                              Report.gaps[k].package_name = name})
                  = Cardinality({pos \in BelowHundred(source.root) :
                                    DottedPackageName(source.root, pos) = name})

(***************************************************************************)
(* Properties of _get_coverage_percent and of counters that are not        *)
(* numbers.                                                                *)
(***************************************************************************)
\* the places of the element's own counters of the kind
OfKind(element, kind) ==
    {i \in 1..Len(element.counters) : element.counters[i].type = kind}

\* rule 5 for an element with at most one counter of the kind
RuleFive(element, kind) ==
    IF OfKind(element, kind) = {} THEN Zero
    ELSE LET c == element.counters[CHOOSE i \in OfKind(element, kind) : TRUE]
             covered == AttrInt(c.covered)
             missed == AttrInt(c.missed)
         IN IF covered + missed = 0 THEN Zero
            ELSE Frac(100 * covered, covered + missed)

\* C14 (percentage computation): the percentage of an element for a kind
\* comes from the element's own counter of the kind, not from a counter of
\* a descendant: 0 without such a counter, 0 when covered + missed = 0,
\* covered / (covered + missed) * 100 otherwise.
PercentageComputation ==
    (pctOut.status = "returned"
        /\ Cardinality(OfKind(ElementAt(source.root, pctOut.element), pctOut.kind)) <= 1) =>
        pctOut.value = RuleFive(ElementAt(source.root, pctOut.element), pctOut.kind)

\* The percentage of a class whose own LINE counter (1 of 2 covered) is not
\* the one of its method (2 of 2 covered).
PercentageComputationWitness ==
    /\ pctOut.status = "returned"
    /\ Len(pctOut.element) = 2
    /\ pctOut.kind = "LINE"
    /\ pctOut.value = Frac(100, 2)
    /\ \E m \in 1..Len(ElementAt(source.root, pctOut.element).methods) :
          get_coverage_percent(ElementAt(source.root, pctOut.element).methods[m], "LINE")
              = Hundred

\* the count a non-numeric value is to be taken for
Absorbed(v) == IF AttrRaises(v) THEN StrOfNat(0) ELSE v

AbsorbedCounters(counters) ==
    [i \in 1..Len(counters) |->
        [counters[i] EXCEPT !.covered = Absorbed(@), !.missed = Absorbed(@)]]

\* the report with every non-numeric count replaced by 0
AbsorbedRoot(root) ==
    [packages |->
        [p \in 1..Len(root.packages) |->
            [root.packages[p] EXCEPT
                !.counters = AbsorbedCounters(@),
                !.classes = [c \in 1..Len(root.packages[p].classes) |->
                    [root.packages[p].classes[c] EXCEPT
                        !.counters = AbsorbedCounters(@),
                        !.methods =
                            [m \in 1..Len(root.packages[p].classes[c].methods) |->
                                [root.packages[p].classes[c].methods[m] EXCEPT
                                    !.counters = AbsorbedCounters(@)]]]]]],
     counters |-> AbsorbedCounters(root.counters)]

\* C15 as claimed (invalid counter values are absorbed): parse_report
\* returns a report whatever the counts of the counters it reads, a
\* non-numeric count being taken for 0.
InvalidCountersAbsorbed ==
    (source.kind = "xml" /\ outcome.status # "none") =>
        /\ Returned
        /\ outcome = parse_report([kind |-> "xml", root |-> AbsorbedRoot(source.root)])

(***************************************************************************)
(* Properties of the uncovered lines of a gap.                             *)
(***************************************************************************)
\* the line numbers of the method's line entries without a covered
\* instruction, in document order
ZeroCoveredLines(method) ==
    LET NotCovered(line) == AttrInt(line.ci) = 0
        entries == SelectSeq(method.lines, NotCovered)
    IN [i \in 1..Len(entries) |-> AttrInt(entries[i].nr)]

\* the record of the method at pos, with the uncovered lines as claimed
RecordWithZeroCoveredLines(root, pos) ==
    [RecordOf(root, pos) EXCEPT !.uncovered_lines = ZeroCoveredLines(MethodAt(root, pos))]

\* C16 (uncovered-line extraction): the uncovered_lines of every gap are the
\* line numbers of the method's line entries with ci = 0, in document
\* order, and nothing else; a gap without such an entry has the empty list.
UncoveredLineExtraction ==
    Returned =>
        \A pos \in BelowHundred(source.root) :
            Occurrences(Report.gaps, RecordWithZeroCoveredLines(source.root, pos))
                = Cardinality({q \in BelowHundred(source.root) :
                                  RecordWithZeroCoveredLines(source.root, q)
                                      = RecordWithZeroCoveredLines(source.root, pos)})

\* A gap whose method has a covered line entry beside two uncovered ones,
\* line 2 before line 1: the list is <<2, 1>>.
UncoveredLineExtractionWitness ==
    /\ Returned
    /\ \E pos \in BelowHundred(source.root) :
          /\ \E i \in 1..Len(MethodAt(source.root, pos).lines) :
                AttrInt(MethodAt(source.root, pos).lines[i].ci) > 0
          /\ ZeroCoveredLines(MethodAt(source.root, pos)) = <<2, 1>>
          /\ \E k \in 1..Len(Report.gaps) :
                Report.gaps[k] = RecordWithZeroCoveredLines(source.root, pos)

\* C17 as claimed: the uncovered_lines of every gap are in ascending order
\* and every one of them is a line number >= 1.
UncoveredLinesAscending ==
    Returned =>
        \A k \in 1..Len(Report.gaps) :
            /\ \A i, j \in 1..Len(Report.gaps[k].uncovered_lines) :
                  i < j => Report.gaps[k].uncovered_lines[i]
                               <= Report.gaps[k].uncovered_lines[j]
            /\ \A i \in 1..Len(Report.gaps[k].uncovered_lines) :
                  Report.gaps[k].uncovered_lines[i] >= 1

(***************************************************************************)
(* Properties of the generated tests: order, linkage, names and bodies.    *)
(***************************************************************************)
\* the last dotted segment of a name
RECURSIVE LastDottedSegment(_)
LastDottedSegment(name) ==
    IF \E i \in 1..Len(name) : name[i] = "." THEN LastDottedSegment(Tail(name))
    ELSE name

\* the signature before its first '('
RECURSIVE BareName(_)
BareName(signature) ==
    IF Len(signature) = 0 \/ Head(signature) = "(" THEN <<>>
    ELSE <<Head(signature)>> \o BareName(Tail(signature))

\* C18 (generator output order and linkage): with n = max_tests_per_gap > 0
\* the k-th test (0-based) is the case of index k mod n of the gap at
\* position floor(k / n); target_class and target_method are that gap's
\* class_name and method_name, class_name is the last dotted segment of the
\* gap's class_name followed by 'Test'.
GeneratorOrderLinkage ==
    (Generated /\ genOut.max_tests_per_gap > 0) =>
        \A k \in 1..Len(genOut.tests) :
            LET gap == gapsIn[GapIndexOf(k, genOut.max_tests_per_gap)]
                i == CaseIndexOf(k, genOut.max_tests_per_gap)
                test == genOut.tests[k]
            IN /\ test.test_method_name = TestMethodName(gap, i)
               /\ test.test_code = generate_test_code(gap, i)
               /\ test.target_class = gap.class_name
               /\ test.target_method = gap.method_name
               /\ test.class_name = Str(LastDottedSegment(gap.class_name)) \o "Test"

\* Several cases for each of several gaps of different classes and
\* methods, a.b.W first.
GeneratorOrderLinkageWitness ==
    /\ Generated
    /\ genOut.max_tests_per_gap >= 2
    /\ Len(gapsIn) >= 2
    /\ gapsIn[1] = GapGetter
    /\ gapsIn[2] = GapPlain
    /\ genOut.tests[1].class_name = "WTest"

\* the names a case of the gap with number n can carry, whatever the
\* capitalisation and the separator before the suffix
NamesWithSuffix(gap, n) ==
    {"test" \o Str(stem) \o sep \o "Case" \o Str(StrOfNat(n)) :
        stem \in {Capitalize(BareName(gap.method_name)),
                  UpperFirst(BareName(gap.method_name))},
        sep \in {"_", ""}}

\* C19 (unique case index): the cases generated for one gap carry pairwise
\* distinct names, the case of index i the suffix Case<i+1>, also for
\* max_tests_per_gap above 3.
UniqueCaseIndex ==
    Generated =>
        \A k \in 1..Len(genOut.tests) :
            /\ genOut.tests[k].test_method_name
                   \in NamesWithSuffix(gapsIn[GapIndexOf(k, genOut.max_tests_per_gap)],
                                       CaseIndexOf(k, genOut.max_tests_per_gap) + 1)
            /\ \A j \in 1..Len(genOut.tests) :
                  (j # k /\ GapIndexOf(j, genOut.max_tests_per_gap)
                                = GapIndexOf(k, genOut.max_tests_per_gap)) =>
                      genOut.tests[j].test_method_name # genOut.tests[k].test_method_name

\* Four cases for a single gap: the third and the fourth have one body and
\* two names.
UniqueCaseIndexWitness ==
    /\ Generated
    /\ Len(gapsIn) = 1
    /\ genOut.max_tests_per_gap = 4
    /\ genOut.tests[3].test_code = genOut.tests[4].test_code
    /\ genOut.tests[3].test_method_name # genOut.tests[4].test_method_name

\* the three shapes of a body: the declared name, the simple class name and
\* the bare method name are their only variable parts
VariantA(declared, class_simple_name, method_name) ==
    "    @Test\n"
        \o "    public void " \o declared \o "() {\n"
        \o "        " \o class_simple_name \o " instance = new " \o class_simple_name \o "();\n"
        \o "        assertNotNull(instance);\n"
        \o "        \n"
        \o "        instance." \o method_name \o "();\n"
        \o "        \n"
        \o "        assertEquals(instance, instance);\n"
        \o "    }"

VariantB(declared, class_simple_name, method_name) ==
    "    @Test\n"
        \o "    public void " \o declared \o "() {\n"
        \o "        " \o class_simple_name \o " instance = new " \o class_simple_name \o "();\n"
        \o "        \n"
        \o "        assertDoesNotThrow(() -> {\n"
        \o "            instance." \o method_name \o "();\n"
        \o "        });\n"
        \o "        \n"
        \o "        assertNotNull(instance);\n"
        \o "    }"

VariantC(declared, class_simple_name, method_name) ==
    "    @Test\n"
        \o "    public void " \o declared \o "() {\n"
        \o "        " \o class_simple_name \o " instance = new " \o class_simple_name \o "();\n"
        \o "        instance." \o method_name \o "();\n"
        \o "        \n"
        \o "        Object result = instance;\n"
        \o "        assertNotNull(result);\n"
        \o "        assertTrue(result instanceof " \o class_simple_name \o ");\n"
        \o "    }"

\* the number of the variant the index selects: 1 for A, 2 for B, 3 for C
VariantNumber(i) == IF i < 2 THEN i + 1 ELSE 3

\* the names the body of the case of index i can declare: numbered by the
\* case or by the variant
DeclarableNames(gap, i) ==
    NamesWithSuffix(gap, i + 1) \cup NamesWithSuffix(gap, VariantNumber(i))

\* the bodies of the shape the index selects
BodiesOfIndex(gap, i) ==
    {IF i = 0 THEN VariantA(declared, Str(LastDottedSegment(gap.class_name)),
                            Str(BareName(gap.method_name)))
     ELSE IF i = 1 THEN VariantB(declared, Str(LastDottedSegment(gap.class_name)),
                                 Str(BareName(gap.method_name)))
     ELSE VariantC(declared, Str(LastDottedSegment(gap.class_name)),
                   Str(BareName(gap.method_name))) :
        declared \in DeclarableNames(gap, i)}

\* C20 (variant selection): the body of the case of index 0 has the shape
\* of variant A, of index 1 of variant B, of every index >= 2 of variant C,
\* whatever the gap.
VariantSelection ==
    Generated =>
        \A k \in 1..Len(genOut.tests) :
            genOut.tests[k].test_code
                \in BodiesOfIndex(gapsIn[GapIndexOf(k, genOut.max_tests_per_gap)],
                                  CaseIndexOf(k, genOut.max_tests_per_gap))

\* Four cases for each of two gaps of different classes: the case of index
\* 3 is there for both.
VariantSelectionWitness ==
    /\ Generated
    /\ genOut.max_tests_per_gap = 4
    /\ Len(gapsIn) = 2
    /\ gapsIn[1].class_name # gapsIn[2].class_name
    /\ Len(genOut.tests) = 8

\* the bodies that declare the name, with the shape the index selects
BodiesDeclaring(name, gap, i) ==
    {IF i = 0 THEN VariantA(name, Str(LastDottedSegment(gap.class_name)),
                            Str(BareName(gap.method_name)))
     ELSE IF i = 1 THEN VariantB(name, Str(LastDottedSegment(gap.class_name)),
                                 Str(BareName(gap.method_name)))
     ELSE VariantC(name, Str(LastDottedSegment(gap.class_name)),
                   Str(BareName(gap.method_name)))}

\* C21 as claimed: the method name declared in the body of every generated
\* test is its test_method_name, the key format_test_file de-duplicates by.
DeclaredNameIsTestName ==
    Generated =>
        \A k \in 1..Len(genOut.tests) :
            genOut.tests[k].test_code
                \in BodiesDeclaring(genOut.tests[k].test_method_name,
                                    gapsIn[GapIndexOf(k, genOut.max_tests_per_gap)],
                                    CaseIndexOf(k, genOut.max_tests_per_gap))

\* the gaps of the first gap's class that generate_tests considers
GroupGaps ==
    SelectSeq(Considered(gapsIn), LAMBDA g : g.class_name = gapsIn[1].class_name)

\* the gap methods of the group are different methods
DistinctGapMethods ==
    \A i, j \in 1..Len(GroupGaps) :
        i # j => GroupGaps[i].method_name # GroupGaps[j].method_name

\* C22 as claimed: the document of the tests generated for the gaps of one
\* class, different methods each, holds the body of every one of these
\* tests, overloads of one bare name included.
NoTestLostInAssembly ==
    (Formatted /\ DistinctGapMethods) =>
        /\ fmtIn.tests = GapTests(genOut.tests, gapsIn[1])
        /\ fmtOut.text =
               FileHead(fmtIn.test_class_name, fmtIn.package_name)
                   \o BlankLineSeparated(
                          [k \in 1..Len(fmtIn.tests) |-> fmtIn.tests[k].test_code])
                   \o FileTail

\* some generated test names the gap as its target
Targeted(gap) ==
    \E k \in 1..Len(genOut.tests) :
        /\ genOut.tests[k].target_class = gap.class_name
        /\ genOut.tests[k].target_method = gap.method_name

\* C23 (the lowest-coverage gaps get the tests): after
\* generate_tests(parse_report(r).gaps, n) with n > 0 the gaps of the report
\* are in non-decreasing order of line coverage, the gaps some test targets
\* are exactly the first min(10, number of gaps) of them, and no targeted
\* gap has a greater line coverage than a gap without test.
LowestCoverageTargeted ==
    (Returned /\ Generated /\ genOut.max_tests_per_gap > 0) =>
        LET gaps == Report.gaps
        IN /\ gapsIn = gaps
           /\ \A i, j \in 1..Len(gaps) :
                  i < j => ~Less(gaps[j].line_coverage, gaps[i].line_coverage)
           /\ \A i \in 1..Len(gaps) :
                  Targeted(gaps[i]) <=> i <= Min(GapCap, Len(gaps))
           /\ \A i, j \in 1..Len(gaps) :
                  (Targeted(gaps[i]) /\ ~Targeted(gaps[j]))
                      => ~Less(gaps[j].line_coverage, gaps[i].line_coverage)

\* A report of more gaps than the cap: the first method of the document has
\* the greatest line coverage of all gaps and gets no test, the method that
\* follows it does.
LowestCoverageTargetedWitness ==
    /\ Returned /\ Generated /\ genOut.max_tests_per_gap > 0
    /\ Len(Report.gaps) > GapCap
    /\ Report.gaps[Len(Report.gaps)].method_name = RankedName(1) \o <<"(", ")", "V">>
    /\ ~Targeted(Report.gaps[Len(Report.gaps)])
    /\ Less(Report.gaps[1].line_coverage,
            Report.gaps[Len(Report.gaps)].line_coverage)
    /\ Report.gaps[1].method_name = RankedName(2) \o <<"(", ")", "V">>
    /\ Targeted(Report.gaps[1])
====
